---- MODULE Spec2Model ----
(***************************************************************************)
(* Proportional Approval Voting: axvoting.cardinal.approval.proportional.  *)
(*                                                                         *)
(* The model follows src/src/axvoting/cardinal/approval/proportional.py    *)
(* and the script src/examples/proportional_approval_voting_example.py.    *)
(*                                                                         *)
(* Candidates are strings in the source; here a candidate is a natural     *)
(* number and the order of the numbers is the order of the strings         *)
(* (A=1 < B=2 < C=3 < X=4 < Y=5 < Z=6).                                    *)
(*                                                                         *)
(* Scores are floats in the source; here a score is the exact rational     *)
(* multiplied by Scale, so that every weight 1/(2i-1), 1/1.2 and 1/1.4 is  *)
(* an integer.                                                             *)
(***************************************************************************)
EXTENDS Integers, Sequences, FiniteSets, TLC

VARIABLES
    constructed,          \* TRUE once Election(...) has returned
    committee_size,       \* Election.committee_size
    apportionment_method, \* Election.apportionment_method (a class name)
    choices,              \* Election.choices: [none |-> TRUE/FALSE, set |-> ...]
    ballots,              \* Election.ballots: identity -> set of candidates
    ballot_to_indexes,    \* Election.ballot_to_indexes: sorted tuple -> list of identities
    counter,              \* Election.counter
    call,                 \* the last call: its name, argument, outcome and value
    hist                  \* the store before the last call and before the one before it

vars == <<constructed, committee_size, apportionment_method, choices,
          ballots, ballot_to_indexes, counter, call, hist>>

(***************************************************************************)
(* Bounds of the model.                                                    *)
(***************************************************************************)
MaxBallots == 2
MaxCommitteeSize == 3

\* The candidates A, B, C that the ballots of Spec and SpecResult approve.
Candidates == {1, 2, 3}
\* The committee sizes an election is built with: negative, zero, and up to
\* MaxCommitteeSize.
CommitteeSizes == (0 - 1)..MaxCommitteeSize

\* The exact rationals of the source times Scale are integers up to dv(6).
Scale == 2 * 3 * 3 * 5 * 7 * 11

(***************************************************************************)
(* Python built-ins used by the source.                                    *)
(***************************************************************************)
Min(S) == CHOOSE x \in S : \A y \in S : x <= y
Max(S) == CHOOSE x \in S : \A y \in S : x >= y

RECURSIVE sorted(_)
\* sorted(s): the elements of a set of comparable values, ascending.
sorted(S) == IF S = {} THEN <<>> ELSE <<Min(S)>> \o sorted(S \ {Min(S)})

\* reversed order of a tuple
Reverse(s) == [i \in 1..Len(s) |-> s[Len(s) + 1 - i]]

\* set(t) for a tuple t
ToSet(t) == {t[i] : i \in 1..Len(t)}

\* t < u for two tuples of numbers, as Python compares tuples.
RECURSIVE TupleLess(_, _)
TupleLess(t, u) ==
    IF u = <<>> THEN FALSE
    ELSE IF t = <<>> THEN TRUE
    ELSE IF Head(t) # Head(u) THEN Head(t) < Head(u)
    ELSE TupleLess(Tail(t), Tail(u))

RECURSIVE Concat(_)
\* itertools.chain.from_iterable over a tuple of tuples
Concat(ss) == IF ss = <<>> THEN <<>> ELSE Head(ss) \o Concat(Tail(ss))

RECURSIVE combinations(_, _)
\* itertools.combinations(pool, r) for r >= 0: the r-length subsequences of
\* pool, in lexicographic order of their positions.  (r < 0 raises
\* ValueError before anything is produced, see get_result.)
combinations(pool, r) ==
    IF r = 0 THEN << <<>> >>
    ELSE IF Len(pool) < r THEN <<>>
    ELSE LET with == combinations(Tail(pool), r - 1)
             without == combinations(Tail(pool), r)
         IN [i \in 1..Len(with) |-> <<Head(pool)>> \o with[i]] \o without

(***************************************************************************)
(* Apportionment methods.                                                  *)
(***************************************************************************)
SainteLague == "SainteLagueApportionmentMethod"
SainteLague12 == "SainteLague12ApportionmentMethod"
SainteLague14 == "SainteLague14ApportionmentMethod"

\* The names from_name declares (the Literal of its signature).
DeclaredNames == {"d_hondt", "sainte_lague", "sainte_lague_1_2", "sainte_lague_1_4"}
\* The names the script may pass: the declared ones and one that is not.
Names == DeclaredNames \cup {"borda"}

\* The dict literal inside from_name.
from_name_table ==
    [n \in {"sainte_lague", "sainte_lague_1_2", "sainte_lague_1_4"} |->
        CASE n = "sainte_lague" -> SainteLague
          [] n = "sainte_lague_1_2" -> SainteLague12
          [] n = "sainte_lague_1_4" -> SainteLague14]

\* ApportionmentMethod.from_name(name): the class, or KeyError from the dict lookup.
from_name(name) ==
    IF name \in DOMAIN from_name_table
    THEN [outcome |-> "return", value |-> from_name_table[name]]
    ELSE [outcome |-> "KeyError", value |-> "None"]

\* A plausible slip in dv: the d'Hondt weight 1/index in place of 1/(2*index - 1).
dv_harmonic(cls, index) ==
    IF index = 0 THEN 0
    ELSE IF index = 1 /\ cls = SainteLague12 THEN (Scale * 10) \div 12
    ELSE IF index = 1 /\ cls = SainteLague14 THEN (Scale * 10) \div 14
    ELSE Scale \div index

\* cls.dv(index) for index >= 0, times Scale.
dv(cls, index) ==
    IF index = 0 THEN 0
    ELSE IF index = 1 /\ cls = SainteLague12 THEN (Scale * 10) \div 12
    ELSE IF index = 1 /\ cls = SainteLague14 THEN (Scale * 10) \div 14
    ELSE Scale \div (2 * index - 1)

\* dv and v raise ValueError on a negative index.
raises_ValueError(index) == index < 0

RECURSIVE sum_dv(_, _, _)
\* sum(cls.dv(i) for i in range(lo, hi + 1))
sum_dv(cls, lo, hi) == IF lo > hi THEN 0 ELSE dv(cls, lo) + sum_dv(cls, lo + 1, hi)

\* A plausible slip in v: range(1, index) in place of range(1, index + 1).
v_range_short(cls, index) == IF index = 0 THEN 0 ELSE sum_dv(cls, 1, index - 1)

\* cls.v(index) for index >= 0, times Scale.
v(cls, index) == IF index = 0 THEN 0 ELSE sum_dv(cls, 1, index)

(***************************************************************************)
(* Election.get_result.                                                    *)
(***************************************************************************)
\* A plausible slip in get_choices: self.choices is not applied.
get_choices_unfiltered(b, ch) == UNION {b[i] : i \in DOMAIN b}

\* Lines 154-159: the candidates of the stored ballots, cut down to
\* self.choices when it is set.
get_choices(b, ch) ==
    LET actual_choices == UNION {b[i] : i \in DOMAIN b}
    IN IF ch.none THEN actual_choices ELSE actual_choices \cap ch.set

RECURSIVE score_loop(_, _, _, _)
\* Lines 163-167: the loop over self.ballots.values(), a dict in insertion
\* order; ids is the tuple of its keys in that order.
score_loop(b, ids, cls, committee_candidate_set) ==
    IF ids = <<>> THEN 0
    ELSE v(cls, Cardinality(b[Head(ids)] \cap committee_candidate_set))
         + score_loop(b, Tail(ids), cls, committee_candidate_set)

\* The keys of self.ballots in insertion order.  Identities are inserted in
\* the order of self.counter.
dict_order(b) == sorted(DOMAIN b)

committee_score(b, cls, committee_candidate) ==
    score_loop(b, dict_order(b), cls, ToSet(committee_candidate))

\* Lines 160-171: one entry per combination, in the order of enumeration:
\* the committee as tuple(sorted(...)) and its score.
scored_committees(b, cls, combos) ==
    [i \in 1..Len(combos) |->
        [committees |-> sorted(ToSet(combos[i])),
         scores |-> committee_score(b, cls, combos[i])]]

\* best_committee_candidates: score -> the committees with that score, in
\* the order of enumeration (setdefault(...).append(...)).
group_by_score(scored) ==
    [s \in {scored[i].scores : i \in 1..Len(scored)} |->
        LET has_score(r) == r.scores = s IN SelectSeq(scored, has_score)]

\* Lines 172-180: the two columns handed to pd.DataFrame, as rows.
frame_rows(best) ==
    LET scores == Reverse(sorted(DOMAIN best))
    IN Concat([j \in 1..Len(scores) |-> best[scores[j]]])

\* The order of sort_values(by=["scores", "committees"], ascending=[False, True]).
row_before(a, b) ==
    \/ a.scores > b.scores
    \/ a.scores = b.scores /\ TupleLess(a.committees, b.committees)

RECURSIVE insert_row(_, _)
insert_row(row, s) ==
    IF s = <<>> THEN <<row>>
    ELSE IF row_before(row, Head(s)) THEN <<row>> \o s
    ELSE <<Head(s)>> \o insert_row(row, Tail(s))

RECURSIVE stable_sort(_)
stable_sort(rows) ==
    IF rows = <<>> THEN <<>>
    ELSE insert_row(rows[Len(rows)], stable_sort(SubSeq(rows, 1, Len(rows) - 1)))

\* A plausible slip in get_result: the frame is returned without sort_values.
sort_values_missing(rows) == rows

\* Lines 181-185: DataFrame.sort_values (a stable sort, ignore_index=True).
sort_values(rows) == stable_sort(rows)

\* A plausible slip in get_result: a committee_size below 1 is turned away.
get_result_positive_only(b, k, cls, ch, pool) ==
    IF k < 1 THEN [outcome |-> "ValueError", value |-> <<>>]
    ELSE [outcome |-> "return",
          value |-> sort_values(frame_rows(group_by_score(
                        scored_committees(b, cls, combinations(pool, k)))))]

\* Election.get_result, with pool the order in which the set `choices` is
\* iterated by combinations().  A negative committee_size makes
\* combinations() raise ValueError at line 161.
get_result(b, k, cls, ch, pool) ==
    IF k < 0 THEN [outcome |-> "ValueError", value |-> <<>>]
    ELSE [outcome |-> "return",
          value |-> sort_values(frame_rows(group_by_score(
                        scored_committees(b, cls, combinations(pool, k)))))]

\* A Python set is iterated in an order its hashes decide.  The model draws
\* the order from these: ascending, descending, and ascending rotated by one.
iteration_orders(S) ==
    LET up == sorted(S)
    IN {up, Reverse(up)} \cup (IF up = <<>> THEN {} ELSE {Tail(up) \o <<Head(up)>>})

(***************************************************************************)
(* The ballot store.                                                       *)
(***************************************************************************)
Store == [ballots |-> ballots, ballot_to_indexes |-> ballot_to_indexes,
          counter |-> counter]

\* d[key].append(x) on a defaultdict(list)
defaultdict_append(d, key, x) ==
    [kk \in DOMAIN d \cup {key} |->
        IF kk = key THEN Append(IF key \in DOMAIN d THEN d[key] ELSE <<>>, x)
        ELSE d[kk]]

\* d[key] on a defaultdict(list): a missing key is inserted with [].
defaultdict_getitem(d, key) ==
    [kk \in DOMAIN d \cup {key} |-> IF kk \in DOMAIN d THEN d[kk] ELSE <<>>]

\* del d[key] for a key that is present
dict_del(d, key) == [kk \in DOMAIN d \ {key} |-> d[kk]]

\* A plausible slip in cast_ballot: the counter is left as it is.
next_counter_stuck(c) == c

\* Line 132: self.counter += 1
next_counter(c) == c + 1

\* Election.cast_ballot(approves): the store after the call and what the
\* call returned or raised.
cast_ballot(st, approves) ==
    LET approves_set == approves
        ballot_index == st.counter
    IN IF ballot_index \in DOMAIN st.ballots
       THEN [store |-> st, outcome |-> "RuntimeError", value |-> 0 - 1]
       ELSE [store |->
                [ballots |-> st.ballots @@ (ballot_index :> approves_set),
                 ballot_to_indexes |->
                    defaultdict_append(st.ballot_to_indexes,
                                       sorted(approves_set), ballot_index),
                 counter |-> next_counter(st.counter)],
             outcome |-> "return", value |-> ballot_index]

\* Line 17 declares `type Ballot = set[Candidate]`, a typing.TypeAliasType,
\* which is no class: isinstance(ballot, Ballot) at line 137 raises
\* TypeError whatever the ballot is.
isinstance_Ballot(arg) == "TypeError"

\* Lines 138-144 when `ballot` is taken for a Ballot (removal by value).
remove_by_value(st, ballot) ==
    LET index1 == defaultdict_getitem(st.ballot_to_indexes, sorted(ballot))
        ids == index1[sorted(ballot)]
        st1 == [st EXCEPT !.ballot_to_indexes = index1]
    IN IF ids = <<>> THEN [store |-> st1, outcome |-> "IndexError"]
       ELSE IF ids[Len(ids)] \notin DOMAIN st.ballots
       THEN [store |-> st1, outcome |-> "KeyError"]
       \* line 144: the key is a set, which is unhashable
       ELSE [store |-> [st1 EXCEPT !.ballots = dict_del(st.ballots, ids[Len(ids)])],
             outcome |-> "TypeError"]

\* Lines 141-144 when `ballot` is taken for an identity.
remove_by_index(st, ballot) ==
    IF ballot \notin DOMAIN st.ballots
    THEN [store |-> st, outcome |-> "KeyError"]
    \* line 144: the key is the stored ballot, a set, which is unhashable
    ELSE [store |-> [st EXCEPT !.ballots = dict_del(st.ballots, ballot)],
          outcome |-> "TypeError"]

\* Election.remove_ballot(ballot); arg is [kind |-> "set" or "int", val |-> ...].
remove_ballot(st, arg) ==
    IF isinstance_Ballot(arg) = "TypeError"
    THEN [store |-> st, outcome |-> "TypeError"]
    ELSE IF isinstance_Ballot(arg) = "True"
    THEN remove_by_value(st, arg.val)
    ELSE remove_by_index(st, arg.val)

(***************************************************************************)
(* The program: a script that builds one Election and calls its methods,   *)
(* as src/examples/proportional_approval_voting_example.py does.           *)
(***************************************************************************)
NoChoices == [none |-> TRUE, set |-> {}]
SomeChoices(S) == [none |-> FALSE, set |-> S]

EmptyStore == [ballots |-> <<>>, ballot_to_indexes |-> <<>>, counter |-> 0]

\* hist.cast_before when the last call does not directly follow a cast_ballot
NoCast == [is |-> FALSE, store |-> EmptyStore, value |-> 0 - 1, ballot |-> {}]

Init ==
    /\ constructed = FALSE
    /\ committee_size = 0
    /\ apportionment_method = "None"
    /\ choices = NoChoices
    /\ ballots = <<>>
    /\ ballot_to_indexes = <<>>
    /\ counter = 0
    /\ call = [op |-> "start", arg |-> "None", outcome |-> "return", value |-> "None"]
    /\ hist = [pre |-> EmptyStore, cast_before |-> NoCast, after_remove |-> FALSE,
               issued |-> <<>>]

\* What every call records: the call; the store before it; for a
\* remove_ballot that directly follows a cast_ballot, that cast and the store
\* before it; for a cast_ballot, whether it directly follows a
\* remove_ballot; and the identities cast_ballot has returned so far.
Record(op, arg, outcome, value) ==
    /\ call' = [op |-> op, arg |-> arg, outcome |-> outcome, value |-> value]
    /\ hist' = [pre |-> Store,
                cast_before |->
                    IF op = "remove_ballot" /\ call.op = "cast_ballot"
                       /\ call.outcome = "return"
                    THEN [is |-> TRUE, store |-> hist.pre, value |-> call.value,
                          ballot |-> call.arg]
                    ELSE NoCast,
                after_remove |-> op = "cast_ballot" /\ call.op = "remove_ballot",
                issued |-> IF op = "cast_ballot" /\ outcome = "return"
                           THEN Append(hist.issued, value) ELSE hist.issued]

SetStore(st) ==
    /\ ballots' = st.ballots
    /\ ballot_to_indexes' = st.ballot_to_indexes
    /\ counter' = st.counter

\* Election(committee_size=k, apportionment_method=from_name(name), choices=ch)
\* and __post_init__ (example, lines 8-11).
NewElection(name, k, ch) ==
    /\ ~constructed
    /\ call.op = "start"
    /\ LET m == from_name(name)
       IN /\ Record("Election", name, m.outcome, m.value)
          /\ IF m.outcome = "return"
             THEN /\ constructed' = TRUE
                  /\ committee_size' = k
                  /\ apportionment_method' = m.value
                  /\ choices' = ch
                  /\ SetStore(EmptyStore)
             ELSE UNCHANGED <<constructed, committee_size, apportionment_method,
                              choices, ballots, ballot_to_indexes, counter>>

CastBallot(approves) ==
    /\ constructed
    /\ LET r == cast_ballot(Store, approves)
       IN /\ SetStore(r.store)
          /\ Record("cast_ballot", approves, r.outcome, r.value)
    /\ UNCHANGED <<constructed, committee_size, apportionment_method, choices>>

IntArg(i) == [kind |-> "int", val |-> i]
SetArg(s) == [kind |-> "set", val |-> s]

RemoveBallot(arg) ==
    /\ constructed
    /\ LET r == remove_ballot(Store, arg)
       IN /\ SetStore(r.store)
          /\ Record("remove_ballot", arg, r.outcome, "None")
    /\ UNCHANGED <<constructed, committee_size, apportionment_method, choices>>

GetResult(pool) ==
    /\ constructed
    /\ LET r == get_result(ballots, committee_size, apportionment_method,
                           choices, pool)
       IN Record("get_result", "None", r.outcome, r.value)
    /\ UNCHANGED <<constructed, committee_size, apportionment_method, choices,
                   ballots, ballot_to_indexes, counter>>

Ballots == SUBSET Candidates
\* Election.choices: not given, or the candidates A and B.
ChoicesOptions == {NoChoices, SomeChoices({1, 2})}

\* The configuration of the example script (lines 8-11).
ExampleName == "sainte_lague"
ExampleCommitteeSize == 3

(***************************************************************************)
(* Spec: the store.  One election, configured as the example's, on which   *)
(* cast_ballot, remove_ballot and get_result are called in any order.      *)
(***************************************************************************)
Next ==
    \/ NewElection(ExampleName, ExampleCommitteeSize, NoChoices)
    \/ counter < MaxBallots /\ \E approves \in Ballots : CastBallot(approves)
    \/ \E i \in 0..MaxBallots : RemoveBallot(IntArg(i))
    \/ \E s \in Ballots : RemoveBallot(SetArg(s))
    \/ \E pool \in iteration_orders(get_choices(ballots, choices)) : GetResult(pool)

Spec == Init /\ [][Next]_vars

(***************************************************************************)
(* SpecResult: get_result over every configuration and every store that    *)
(* cast_ballot builds.                                                     *)
(***************************************************************************)
NextResult ==
    \/ \E name \in Names, k \in CommitteeSizes, ch \in ChoicesOptions :
          NewElection(name, k, ch)
    \/ counter < MaxBallots /\ \E approves \in Ballots : CastBallot(approves)
    \/ \E pool \in iteration_orders(get_choices(ballots, choices)) : GetResult(pool)

SpecResult == Init /\ [][NextResult]_vars

(***************************************************************************)
(* SpecExample: the example script.  Its election, the seven ballots of    *)
(* its lines 12-18 cast in any order (A=1, B=2, C=3, X=4, Y=5, Z=6), and   *)
(* get_result once all of them are cast (line 19).                         *)
(***************************************************************************)
ExampleScript ==
    << {1, 2, 3}, {1, 2, 4}, {1, 2, 3}, {1, 2, 4}, {1, 2, 3}, {1, 2, 4}, {4, 5, 6} >>

\* How many times the tuple t holds the value x.
Count(t, x) == Cardinality({i \in DOMAIN t : t[i] = x})

NextExample ==
    \/ NewElection(ExampleName, ExampleCommitteeSize, NoChoices)
    \/ \E approves \in ToSet(ExampleScript) :
          /\ Count(ballots, approves) < Count(ExampleScript, approves)
          /\ CastBallot(approves)
    \/ /\ counter = Len(ExampleScript)
       /\ \E pool \in iteration_orders(get_choices(ballots, choices)) : GetResult(pool)

SpecExample == Init /\ [][NextExample]_vars

(***************************************************************************)
(* Properties of get_result, checked under SpecResult.                     *)
(***************************************************************************)
\* The last call was get_result and it returned its rows.
Returned == call.op = "get_result" /\ call.outcome = "return"
Rows == call.value

\* The weights as section 4.1 of the specification states them: the divisor
\* of the i-th weight, times 10.
Divisor10(cls, i) ==
    IF i = 1
    THEN CASE cls = SainteLague -> 10
           [] cls = SainteLague12 -> 12
           [] cls = SainteLague14 -> 14
    ELSE 10 * (2 * i - 1)

RECURSIVE Satisfaction(_, _)
\* v(k) = v(k - 1) + dv(k), v(0) = 0, times Scale.
Satisfaction(cls, k) ==
    IF k = 0 THEN 0 ELSE Satisfaction(cls, k - 1) + (10 * Scale) \div Divisor10(cls, k)

RECURSIVE SumOver(_, _, _)
\* The sum, over the identities in ids, of the satisfaction of their ballots
\* with the committee C.
SumOver(ids, cls, C) ==
    IF ids = {} THEN 0
    ELSE LET i == CHOOSE x \in ids : TRUE
         IN Satisfaction(cls, Cardinality(ballots[i] \cap C))
            + SumOver(ids \ {i}, cls, C)

\* C1: every row of get_result carries, as its score, the sum over the stored
\* ballots b of v(|b /\ C|) for its committee C, with v(k) the sum of
\* dv(1..k); a committee that shares no candidate with any stored ballot
\* scores 0.
C1_ScoreIsSumOfSatisfaction ==
    Returned =>
        \A j \in 1..Len(Rows) :
            LET C == ToSet(Rows[j].committees)
            IN /\ Rows[j].scores = SumOver(DOMAIN ballots, apportionment_method, C)
               /\ (\A i \in DOMAIN ballots : ballots[i] \cap C = {})
                      => Rows[j].scores = 0

\* A result with two rows of different scores, one of them from a ballot that
\* shares two candidates with the committee.
C1_Witness ==
    /\ Returned
    /\ Len(Rows) >= 2
    /\ Rows[1].scores > Rows[2].scores
    /\ \E i \in DOMAIN ballots :
          Cardinality(ballots[i] \cap ToSet(Rows[1].committees)) >= 2

\* The universe U of section 4.3: the candidates of at least one stored
\* ballot, within Election.choices when it is set.
Universe ==
    {c \in Candidates :
        /\ \E i \in DOMAIN ballots : c \in ballots[i]
        /\ choices.none \/ c \in choices.set}

KSubsets(U, k) == {S \in SUBSET U : Cardinality(S) = k}

\* C3: for a committee_size k >= 1, get_result returns without error, and
\* its committees are the k-element subsets of U, each once; so it is empty
\* when k > |U|.
C3_CommitteesAreKSubsets ==
    (call.op = "get_result" /\ committee_size >= 1) =>
        /\ call.outcome = "return"
        /\ {ToSet(Rows[j].committees) : j \in 1..Len(Rows)}
              = KSubsets(Universe, committee_size)
        /\ Len(Rows) = Cardinality(KSubsets(Universe, committee_size))
        /\ \A j \in 1..Len(Rows) : Len(Rows[j].committees) = committee_size
        /\ (committee_size > Cardinality(Universe) => Rows = <<>>)

\* A result under a choices filter that cuts a cast candidate out and still
\* leaves more than one committee.
C3_Witness ==
    /\ Returned
    /\ committee_size >= 1
    /\ ~choices.none
    /\ \E i \in DOMAIN ballots : ~(ballots[i] \subseteq choices.set)
    /\ Len(Rows) >= 2

RECURSIVE Orders(_)
\* Every order of the elements of the set S, as tuples.
Orders(S) ==
    IF S = {} THEN { <<>> }
    ELSE UNION {{<<x>> \o p : p \in Orders(S \ {x})} : x \in S}

\* The store had its ballots been cast in the order p of their identities:
\* the k-th identity holds the ballot of identity p[k].
CastInOrder(p) ==
    LET ids == sorted(DOMAIN ballots)
    IN [i \in DOMAIN ballots |->
           ballots[p[CHOOSE k \in 1..Len(ids) : ids[k] = i]]]

RemovedJustCast ==
    /\ call.op = "remove_ballot"
    /\ hist.cast_before.is
    /\ \/ call.arg.kind = "int" /\ call.arg.val = hist.cast_before.value
       \/ call.arg.kind = "set" /\ call.arg.val = hist.cast_before.ballot

\* C6 as claimed: cast_ballot(b) directly followed by remove_ballot of that
\* ballot, by identity or by value, ends without error with the identity map
\* and the signature index as they were before the cast, and get_result
\* gives what it gave before the cast.
C6_CastThenRemoveRestores ==
    RemovedJustCast =>
        /\ call.outcome = "return"
        /\ ballots = hist.cast_before.store.ballots
        /\ ballot_to_indexes = hist.cast_before.store.ballot_to_indexes
        /\ \A pool \in iteration_orders(get_choices(ballots, choices)) :
              get_result(ballots, committee_size, apportionment_method,
                         choices, pool)
              = get_result(hist.cast_before.store.ballots, committee_size,
                           apportionment_method, choices,
                           sorted(get_choices(hist.cast_before.store.ballots,
                                              choices)))

\* The identities that held the ballot s before the last call.
HeldBefore(s) == {i \in DOMAIN hist.pre.ballots : hist.pre.ballots[i] = s}

\* C7 as claimed: when two or more stored ballots have the candidate set s,
\* remove_ballot by value of s removes the one with the largest identity
\* and no other, and the others stay listed in the signature index.
C7_RemoveByValueTakesLatest ==
    (/\ call.op = "remove_ballot"
     /\ call.arg.kind = "set"
     /\ Cardinality(HeldBefore(call.arg.val)) >= 2) =>
        LET latest == Max(HeldBefore(call.arg.val))
        IN /\ DOMAIN ballots = DOMAIN hist.pre.ballots \ {latest}
           /\ \A i \in DOMAIN ballots : ballots[i] = hist.pre.ballots[i]
           /\ sorted(call.arg.val) \in DOMAIN ballot_to_indexes
           /\ ToSet(ballot_to_indexes[sorted(call.arg.val)])
                 = HeldBefore(call.arg.val) \ {latest}

\* C8: the identities cast_ballot returns are strictly increasing over the
\* life of the election, whatever remove_ballot calls come between, and
\* cast_ballot never raises its "Invariant breach" RuntimeError.
C8_IdentitiesStrictlyIncrease ==
    /\ \A i, j \in 1..Len(hist.issued) : i < j => hist.issued[i] < hist.issued[j]
    /\ call.outcome # "RuntimeError"
    /\ (call.op = "cast_ballot" => call.outcome = "return")

\* A second cast_ballot that directly follows a remove_ballot call.
C8_Witness ==
    /\ call.op = "cast_ballot"
    /\ hist.after_remove
    /\ Len(hist.issued) = 2
    /\ call.value = hist.issued[2]

\* The last call was remove_ballot of an identity that was not stored, or of
\* a candidate set that no stored ballot had.
RemovedAbsent ==
    /\ call.op = "remove_ballot"
    /\ \/ call.arg.kind = "int" /\ call.arg.val \notin DOMAIN hist.pre.ballots
       \/ call.arg.kind = "set" /\ HeldBefore(call.arg.val) = {}

\* C9 as claimed: remove_ballot of what is not stored fails with the
\* not-found error (KeyError, as the docstring of remove_ballot says) and
\* leaves the identity map, the signature index and the counter alone.
C9_RemoveAbsentIsNotFound ==
    RemovedAbsent =>
        /\ call.outcome = "KeyError"
        /\ Store = hist.pre

(***************************************************************************)
(* from_name, checked under SpecResult.                                    *)
(***************************************************************************)
\* C10 as claimed: from_name resolves each of the four declared names to a
\* method with that variant's dv (d'Hondt: dv(0) = 0, dv(i) = 1/i; the
\* Sainte-Lague variants: dv(1) = 1, 1/1.2, 1/1.4 and dv(i) = 1/(2i - 1)
\* from 2 on), and fails on every other name.
C10_FromNameResolvesDeclaredNames ==
    call.op = "Election" =>
        IF call.arg \in DeclaredNames
        THEN /\ call.outcome = "return"
             /\ dv(call.value, 0) = 0
             /\ \A i \in 2..4 :
                   dv(call.value, i) * (IF call.arg = "d_hondt" THEN i ELSE 2 * i - 1)
                      = Scale
             /\ dv(call.value, 1) * (CASE call.arg = "d_hondt" -> 10
                                       [] call.arg = "sainte_lague" -> 10
                                       [] call.arg = "sainte_lague_1_2" -> 12
                                       [] call.arg = "sainte_lague_1_4" -> 14)
                   = 10 * Scale
        ELSE call.outcome = "KeyError"

(***************************************************************************)
(* The example's scenario, checked under SpecExample.                      *)
(***************************************************************************)
ABC == <<1, 2, 3>>
ABX == <<1, 2, 4>>

\* v(1), v(2), v(3) of Sainte-Lague: 1, 1 + 1/3, 1 + 1/3 + 1/5, times Scale.
SL_v1 == Scale
SL_v2 == Scale + Scale \div 3
SL_v3 == Scale + Scale \div 3 + Scale \div 5

\* The score get_result gave the committee t.
ScoreOf(t) == (CHOOSE r \in ToSet(Rows) : r.committees = t).scores
\* The row at which get_result put the committee t.
RowOf(t) == CHOOSE j \in 1..Len(Rows) : Rows[j].committees = t

\* C2 as claimed: in the example's scenario {A,B,C} and {A,B,X} both score
\* 3 v(3) + 3 v(2), no committee scores more, and they are the first two
\* rows, (A,B,C) then (A,B,X).
C2_TopTwoTied ==
    Returned =>
        /\ ScoreOf(ABC) = 3 * SL_v3 + 3 * SL_v2
        /\ ScoreOf(ABX) = 3 * SL_v3 + 3 * SL_v2
        /\ \A j \in 1..Len(Rows) : Rows[j].scores <= 3 * SL_v3 + 3 * SL_v2
        /\ Rows[1].committees = ABC
        /\ Rows[2].committees = ABX

\* C2 as amended: {A,B,C} scores 3 v(3) + 3 v(2); {A,B,X} shares X with the
\* ballot {X,Y,Z} and scores 3 v(3) + 3 v(2) + v(1), more than every other
\* committee; (A,B,X) is the first row, and (A,B,C) is the sixth, below the
\* four committees that score 6 v(2) + v(1).
C2_ABXAloneOnTop ==
    Returned =>
        /\ ScoreOf(ABC) = 3 * SL_v3 + 3 * SL_v2
        /\ ScoreOf(ABX) = 3 * SL_v3 + 3 * SL_v2 + SL_v1
        /\ Rows[1].committees = ABX
        /\ \A j \in 2..Len(Rows) : Rows[j].scores < Rows[1].scores
        /\ RowOf(ABC) = 6
        /\ \A j \in 2..5 : Rows[j].scores = 6 * SL_v2 + SL_v1

\* get_result of the example's election once its seven ballots are cast:
\* twenty committees.
C2_Witness ==
    /\ Returned
    /\ apportionment_method = SainteLague
    /\ committee_size = 3
    /\ choices.none
    /\ counter = 7
    /\ Count(ballots, {1, 2, 3}) = 3
    /\ Count(ballots, {1, 2, 4}) = 3
    /\ Count(ballots, {4, 5, 6}) = 1
    /\ Len(Rows) = 20

====
